---- MODULE Spec2Model ----
(***************************************************************************)
(* CSV-to-JSON ingestion handler (url_parser.py) and JSON query handler    *)
(* (json_endpoint.py), communicating through one S3 object.                *)
(*                                                                         *)
(* Python values are modelled as records of one shape so that they can be  *)
(* compared: a string, None, or a list of strings.  A dict is the sequence *)
(* of its (key, value) pairs in insertion order.  A JSON text is the       *)
(* sequence of its tokens.                                                 *)
(***************************************************************************)
EXTENDS Integers, Sequences, FiniteSets, TLC

(* ------------------------------ bounds -------------------------------- *)

\* Largest number of lines that follow the first line of the CSV document.
MaxRows == 2

\* Lines a CSV document is made of, each given as the cells csv.reader
\* splits it into; <<>> is a blank line.
Lines == { <<>>, <<"">>, <<"id", "a">>, <<"b", "b">> }

\* Values uuid.uuid4() may return (a finite stand-in for its 2^122 values).
UUIDs == {"u1", "u2"}

\* Values of the `id` query parameter a caller may send.
IdParams == {"", "u0", "u1"}

(* --------------------------- Python values ---------------------------- *)

Str(s) == [k |-> "str", s |-> s, l |-> <<>>]

None == [k |-> "none", s |-> "", l |-> <<>>]

List(l) == [k |-> "list", s |-> "", l |-> l]

Min(a, b) == IF a < b THEN a ELSE b

\* d[key] = val on a dict: replaces the value in place, or appends the key.
DictSet(d, key, val) ==
    IF \E i \in 1..Len(d) : d[i].key = key
    THEN [i \in 1..Len(d) |-> IF d[i].key = key THEN [key |-> key, val |-> val] ELSE d[i]]
    ELSE Append(d, [key |-> key, val |-> val])

HasKey(d, key) == \E i \in 1..Len(d) : d[i].key = key

\* d.get(key): the value, or None.
DictGet(d, key) ==
    IF HasKey(d, key)
    THEN d[CHOOSE i \in 1..Len(d) : d[i].key = key].val
    ELSE None

\* bool(v) for the values that occur.
Truthy(v) ==
    CASE v.k = "str" -> v.s /= ""
      [] v.k = "none" -> FALSE
      [] v.k = "list" -> v.l /= <<>>

(* ------------------------------- JSON --------------------------------- *)

P(c) == [t |-> "p", v |-> c]

S(s) == [t |-> "s", v |-> s]

Null == [t |-> "null", v |-> "null"]

RECURSIVE JoinTexts(_)
\* ", ".join(texts) on token sequences.
JoinTexts(texts) ==
    IF texts = <<>> THEN <<>>
    ELSE IF Len(texts) = 1 THEN texts[1]
    ELSE texts[1] \o <<P(",")>> \o JoinTexts(Tail(texts))

\* json.dumps of a value: a string, null, or an array of strings.
DumpsValue(val) ==
    CASE val.k = "str" -> <<S(val.s)>>
      [] val.k = "none" -> <<Null>>
      [] val.k = "list" ->
            <<P("[")>> \o JoinTexts([i \in 1..Len(val.l) |-> <<S(val.l[i])>>]) \o <<P("]")>>

\* json.dumps of a dict key: a None key is written as the string "null".
DumpsKey(key) == IF key.k = "none" THEN S("null") ELSE S(key.s)

\* json.dumps of one dict.
DumpsDict(d) ==
    <<P("{")>>
    \o JoinTexts([i \in 1..Len(d) |-> <<DumpsKey(d[i].key), P(":")>> \o DumpsValue(d[i].val)])
    \o <<P("}")>>

\* json.dumps of a list of dicts.
Dumps(data) ==
    <<P("[")>> \o JoinTexts([i \in 1..Len(data) |-> DumpsDict(data[i])]) \o <<P("]")>>

Fail == [ok |-> FALSE, val |-> <<>>, next |-> 0]

Tok(t, i) == IF i \in 1..Len(t) THEN t[i] ELSE P("EOF")

RECURSIVE ParseStrings(_, _, _)
\* The elements of an array of strings, from the token after "[" or ",".
ParseStrings(t, i, acc) ==
    IF Tok(t, i).t /= "s" THEN Fail
    ELSE IF Tok(t, i + 1) = P("]")
         THEN [ok |-> TRUE, val |-> List(Append(acc, t[i].v)), next |-> i + 2]
    ELSE IF Tok(t, i + 1) = P(",")
         THEN ParseStrings(t, i + 2, Append(acc, t[i].v))
    ELSE Fail

\* One value of an object: a string, null, or an array of strings.
ParseValue(t, i) ==
    CASE Tok(t, i).t = "s" -> [ok |-> TRUE, val |-> Str(t[i].v), next |-> i + 1]
      [] Tok(t, i).t = "null" -> [ok |-> TRUE, val |-> None, next |-> i + 1]
      [] Tok(t, i) = P("[") ->
            IF Tok(t, i + 1) = P("]")
            THEN [ok |-> TRUE, val |-> List(<<>>), next |-> i + 2]
            ELSE ParseStrings(t, i + 1, <<>>)
      [] OTHER -> Fail

RECURSIVE ParseMembers(_, _, _)
\* The members of an object, from the token after "{" or ",".  A repeated
\* key keeps its first position and its last value, as dict() does.
ParseMembers(t, i, acc) ==
    IF Tok(t, i).t /= "s" \/ Tok(t, i + 1) /= P(":") THEN Fail
    ELSE LET v == ParseValue(t, i + 2)
             d == DictSet(acc, Str(t[i].v), v.val)
         IN  IF ~v.ok THEN Fail
             ELSE IF Tok(t, v.next) = P("}") THEN [ok |-> TRUE, val |-> d, next |-> v.next + 1]
             ELSE IF Tok(t, v.next) = P(",") THEN ParseMembers(t, v.next + 1, d)
             ELSE Fail

\* One object.
ParseObject(t, i) ==
    IF Tok(t, i) /= P("{") THEN Fail
    ELSE IF Tok(t, i + 1) = P("}") THEN [ok |-> TRUE, val |-> <<>>, next |-> i + 2]
    ELSE ParseMembers(t, i + 1, <<>>)

RECURSIVE ParseObjects(_, _, _)
\* The elements of an array of objects, from the token after "[" or ",".
ParseObjects(t, i, acc) ==
    LET o == ParseObject(t, i)
    IN  IF ~o.ok THEN Fail
        ELSE IF Tok(t, o.next) = P("]")
             THEN [ok |-> TRUE, val |-> Append(acc, o.val), next |-> o.next + 1]
        ELSE IF Tok(t, o.next) = P(",") THEN ParseObjects(t, o.next + 1, Append(acc, o.val))
        ELSE Fail

\* json.loads of a text that is an array of objects; ok = FALSE stands for
\* json.JSONDecodeError.
Loads(t) ==
    LET r == IF Tok(t, 1) /= P("[") THEN Fail
             ELSE IF Tok(t, 2) = P("]") THEN [ok |-> TRUE, val |-> <<>>, next |-> 3]
             ELSE ParseObjects(t, 2, <<>>)
    IN  IF r.ok /\ r.next = Len(t) + 1 THEN r ELSE Fail

(* ---------------------------- csv.DictReader -------------------------- *)

RECURSIVE ZipDict(_, _, _, _)
\* dict(zip(fieldnames, row)): the pairs from position i on, added to d.
ZipDict(fieldnames, row, i, d) ==
    IF i > Min(Len(fieldnames), Len(row)) THEN d
    ELSE ZipDict(fieldnames, row, i + 1, DictSet(d, Str(fieldnames[i]), Str(row[i])))

RECURSIVE FillMissing(_, _, _)
\* for key in fieldnames[lr:]: d[key] = restval (restval is None).
FillMissing(d, fieldnames, i) ==
    IF i > Len(fieldnames) THEN d
    ELSE FillMissing(DictSet(d, Str(fieldnames[i]), None), fieldnames, i + 1)

\* The dict DictReader.__next__ builds from one non-blank line.
RowDict(fieldnames, row) ==
    LET d == ZipDict(fieldnames, row, 1, <<>>)
    IN  IF Len(fieldnames) < Len(row)
        THEN DictSet(d, None, List(SubSeq(row, Len(fieldnames) + 1, Len(row))))
        ELSE IF Len(fieldnames) > Len(row)
        THEN FillMissing(d, fieldnames, Len(row) + 1)
        ELSE d

\* The rows csv.DictReader yields for the lines of a document: the first
\* line gives the field names, blank lines are skipped.
DictReader(lines) ==
    IF lines = <<>> THEN <<>>
    ELSE LET data == SelectSeq(Tail(lines), LAMBDA ln : ln /= <<>>)
         IN  [i \in 1..Len(data) |-> RowDict(lines[1], data[i])]

(* --------------------------- ingestion handler ------------------------ *)

\* row.setdefault('id', ...) in place of the assignment: a cell of the CSV's
\* own `id` column is kept.
AttachIdKeep(row, u) ==
    IF HasKey(row, Str("id")) THEN row ELSE Append(row, [key |-> Str("id"), val |-> Str(u)])

\* row['id'] = str(uuid.uuid4()), u being the value uuid4 returned.
AttachId(row, u) == DictSet(row, Str("id"), Str(u))

\* json_data.insert(0, row) in place of append: the rows end up reversed.
BuildRecordsPrepend(lines, ids) ==
    LET rows == DictReader(lines)
        n    == Len(rows)
    IN  [k \in 1..n |-> DictSet(rows[n + 1 - k], Str("id"), Str(ids[n + 1 - k]))]

\* json_data after the loop over csv_reader, ids[k] being the k-th uuid.
BuildRecords(lines, ids) ==
    LET rows == DictReader(lines)
    IN  [k \in 1..Len(rows) |-> AttachId(rows[k], ids[k])]

\* A write that merges with the stored Record Set instead of replacing it.
PutObjectAppend(old, body) ==
    IF old.exists /\ Loads(old.body).ok /\ Loads(body).ok
    THEN [exists |-> TRUE, body |-> Dumps(Loads(old.body).val \o Loads(body).val)]
    ELSE [exists |-> TRUE, body |-> body]

\* The object at the key after s3.put_object succeeded.
PutObject(old, body) == [exists |-> TRUE, body |-> body]

\* A failed write that leaves a truncated object behind.
PutFailedPartial(old) == [exists |-> TRUE, body |-> <<P("[")>>]

\* The object at the key after s3.put_object raised.
PutFailed(old) == old

\* A handler's return value, or the exception that left it.
Returned(body, contentType) ==
    [kind |-> "returned", statusCode |-> 200, body |-> body,
     contentType |-> contentType, error |-> ""]

Raised(e) ==
    [kind |-> "raised", statusCode |-> 0, body |-> <<>>, contentType |-> "", error |-> e]

NoResult ==
    [kind |-> "none", statusCode |-> 0, body |-> <<>>, contentType |-> "", error |-> ""]

\* json.dumps of the confirmation message.
IngestBody == <<S("CSV successfully processed and stored as JSON in S3")>>

(* ----------------------------- query handler -------------------------- *)

\* A read that falls back to an empty Record Set when the object is missing.
GetObjectDefault(b) ==
    [ok |-> TRUE, body |-> IF b.exists THEN b.body ELSE <<P("["), P("]")>>]

\* A read that stops short of the end of the object.
GetObjectTorn(b) ==
    [ok |-> b.exists, body |-> IF b.body = <<>> THEN <<>> ELSE SubSeq(b.body, 1, Len(b.body) - 1)]

\* s3.get_object: the body of the object, or NoSuchKey.
GetObject(b) == [ok |-> b.exists, body |-> b.body]

\* event['queryStringParameters'] or {}
QueryParams(ev) == IF ev.isNull \/ ev.params = <<>> THEN <<>> ELSE ev.params

\* next((obj for obj in json_data if obj['id'] == item_id), None): the
\* position of the first match, 0 for None.
FindItem(data, item_id) ==
    IF \E i \in 1..Len(data) : DictGet(data[i], Str("id")) = item_id
    THEN CHOOSE i \in 1..Len(data) :
            /\ DictGet(data[i], Str("id")) = item_id
            /\ \A j \in 1..(i - 1) : DictGet(data[j], Str("id")) /= item_id
    ELSE 0

\* obj['id'] raises KeyError on an object without `id` that the scan reaches.
ScanRaises(data, item_id) ==
    \E i \in 1..Len(data) :
        /\ ~HasKey(data[i], Str("id"))
        /\ \A j \in 1..(i - 1) : DictGet(data[j], Str("id")) /= item_id

\* The response built around one Record.
Response(item) == Returned(DumpsDict(item), "application/json")

\* A guarded random pick: a JSON null in place of IndexError.
RandomItemOrNull(data) ==
    IF data = <<>> THEN {Returned(<<Null>>, "application/json")}
    ELSE {Returned(DumpsDict(data[i]), "application/json") : i \in 1..Len(data)}

\* random.choice(json_data) and the response around it: IndexError on an
\* empty list.
RandomItem(data) ==
    IF data = <<>> THEN {Raised("IndexError")}
    ELSE {Response(data[i]) : i \in 1..Len(data)}

\* The lookup left out: a random Record whatever the id.
LookupRandom(data, item_id) ==
    IF data = <<>> THEN {Raised("IndexError")}
    ELSE {Returned(DumpsDict(data[i]), "application/json") : i \in 1..Len(data)}

\* A 404 for an id that no Record has.
LookupNotFound(data, item_id) ==
    IF \E i \in 1..Len(data) : DictGet(data[i], Str("id")) = item_id
    THEN {Returned(DumpsDict(data[i]), "application/json") :
            i \in {j \in 1..Len(data) : DictGet(data[j], Str("id")) = item_id}}
    ELSE {[kind |-> "returned", statusCode |-> 404, body |-> <<Null>>,
           contentType |-> "application/json", error |-> ""]}

\* Lines 17-35 for a truthy item_id.
Lookup(data, item_id) ==
    LET i == FindItem(data, item_id)
    IN  IF ScanRaises(data, item_id) THEN {Raised("KeyError")}
        ELSE IF i /= 0 /\ data[i] /= <<>> THEN {Response(data[i])}
        ELSE RandomItem(data)

\* Lines 12-35: every result the handler can end with on the body it read.
Respond(body, ev) ==
    LET parsed  == Loads(body)
        item_id == DictGet(QueryParams(ev), Str("id"))
    IN  IF ~parsed.ok THEN {Raised("JSONDecodeError")}
        ELSE IF Truthy(item_id) THEN Lookup(parsed.val, item_id)
        ELSE RandomItem(parsed.val)

(* ------------------------------- state -------------------------------- *)

VARIABLES
    remote,     \* the document served at CSV_URL
    blob,       \* the S3 object at JSON_KEY
    iresult,    \* how the latest ingestion invocation ended
    written,    \* TRUE once an ingestion has written the object
    uuids,      \* the values uuid4 returned in the latest ingestion that returned
    qpc,        \* the query invocation: "idle" or "read" (past get_object)
    event,      \* its event
    qbody,      \* the body it read
    qresult     \* how the latest query invocation ended

vars == <<remote, blob, iresult, written, uuids, qpc, event, qbody, qresult>>

Docs == UNION {[1..n -> Lines] : n \in 0..(MaxRows + 1)}

Sources ==
    {[decodable |-> FALSE, lines |-> <<>>]}
    \cup {[decodable |-> TRUE, lines |-> d] : d \in Docs}

NoObject == [exists |-> FALSE, body |-> <<>>]

\* A body that is no JSON text: an array that is never closed.
Garbage == <<P("[")>>

\* The Record Set an earlier ingestion of another document left.
PriorData == BuildRecords(<< <<"c">>, <<"z">> >>, <<"u1">>)

InitBlobs ==
    {NoObject, [exists |-> TRUE, body |-> Garbage], [exists |-> TRUE, body |-> Dumps(PriorData)]}

Events ==
    {[isNull |-> TRUE, params |-> <<>>],
     [isNull |-> FALSE, params |-> <<[key |-> Str("name"), val |-> Str("u1")]>>]}
    \cup {[isNull |-> FALSE, params |-> <<[key |-> Str("id"), val |-> Str(v)]>>] : v \in IdParams}

NoEvent == [isNull |-> TRUE, params |-> <<>>]

\* No invocation has run yet; the key holds nothing, a body that is no JSON,
\* or the Record Set of an earlier ingestion.
Fresh ==
    /\ blob \in InitBlobs
    /\ iresult = NoResult
    /\ written = FALSE
    /\ uuids = <<>>
    /\ qpc = "idle"
    /\ event = NoEvent
    /\ qbody = <<>>
    /\ qresult = NoResult

\* The header line `id,a`.
HeaderIdRow == <<"id", "a">>

\* The sources of the two handlers run together: the query handler reads no
\* field of a Record but `id`, so the header is fixed to `id,a` there.
SystemSources ==
    {src \in Sources : ~src.decodable \/ (src.lines /= <<>> /\ src.lines[1] = HeaderIdRow)}

Init == remote \in SystemSources /\ Fresh

InitIngest == remote \in Sources /\ Fresh

(* ------------------------------ actions ------------------------------- *)

\* requests.get or raise_for_status raises: network error or non-2xx status.
IngestFetchFails ==
    /\ iresult' = Raised("RequestException")
    /\ UNCHANGED <<remote, blob, written, uuids, qpc, event, qbody, qresult>>

\* response.content.decode('utf-8') raises.
IngestDecodeFails ==
    /\ ~remote.decodable
    /\ iresult' = Raised("UnicodeDecodeError")
    /\ UNCHANGED <<remote, blob, written, uuids, qpc, event, qbody, qresult>>

\* Lines 14-27, s3.put_object raising.
IngestPutFails ==
    /\ remote.decodable
    /\ blob' = PutFailed(blob)
    /\ iresult' = Raised("ClientError")
    /\ UNCHANGED <<remote, written, uuids, qpc, event, qbody, qresult>>

\* Lines 14-32 without an exception.
IngestSucceeds ==
    /\ remote.decodable
    /\ \E ids \in [1..Len(DictReader(remote.lines)) -> UUIDs] :
          /\ blob' = PutObject(blob, Dumps(BuildRecords(remote.lines, ids)))
          /\ uuids' = ids
    /\ written' = TRUE
    /\ iresult' = Returned(IngestBody, "")
    /\ UNCHANGED <<remote, qpc, event, qbody, qresult>>

\* Line 11 of the query handler raising: no object at the key.
QueryGetFails ==
    /\ qpc = "idle"
    /\ ~GetObject(blob).ok
    /\ \E ev \in Events : event' = ev
    /\ qbody' = <<>>
    /\ qresult' = Raised("NoSuchKey")
    /\ UNCHANGED <<remote, blob, iresult, written, uuids, qpc>>

\* Line 11 of the query handler: the object is read in one piece.
QueryGet ==
    /\ qpc = "idle"
    /\ GetObject(blob).ok
    /\ \E ev \in Events : event' = ev
    /\ qbody' = GetObject(blob).body
    /\ qresult' = NoResult
    /\ qpc' = "read"
    /\ UNCHANGED <<remote, blob, iresult, written, uuids>>

\* Lines 12-35 of the query handler.
QueryRespond ==
    /\ qpc = "read"
    /\ qresult' \in Respond(qbody, event)
    /\ qbody' = <<>>
    /\ qpc' = "idle"
    /\ UNCHANGED <<remote, blob, iresult, written, uuids, event>>

Next ==
    \/ IngestFetchFails
    \/ IngestDecodeFails
    \/ IngestPutFails
    \/ IngestSucceeds
    \/ QueryGetFails
    \/ QueryGet
    \/ QueryRespond

Spec == Init /\ [][Next]_vars

\* The ingestion handler alone: any sequence of its invocations.
NextIngest ==
    \/ IngestFetchFails
    \/ IngestDecodeFails
    \/ IngestPutFails
    \/ IngestSucceeds

SpecIngest == InitIngest /\ [][NextIngest]_vars

(* ------------------------------ claims -------------------------------- *)

\* The Record Set stored at the key, as json.loads reads it.
Stored == Loads(blob.body).val

IdOf(obj) == DictGet(obj, Str("id"))

\* The `id` query parameter of an event: query_params.get('id').
ItemId(ev) == DictGet(QueryParams(ev), Str("id"))

\* A step in which the query handler finishes on the body it read.
QueryResponds == qpc = "read" /\ qpc' = "idle"

\* A step of a query invocation.
QueryStep == <<qpc, event, qbody, qresult>>' /= <<qpc, event, qbody, qresult>>

\* A step in which an ingestion invocation returns its success response.
IngestReturns ==
    /\ iresult'.kind = "returned"
    /\ <<blob, iresult, written, uuids>>' /= <<blob, iresult, written, uuids>>

\* C1 as stated: every Record that ingestion persisted has a non-empty `id`
\* and no two Records of the Record Set have the same `id`.
C1_UniqueIds ==
    written =>
        /\ \A i \in 1..Len(Stored) : IdOf(Stored[i]).k = "str" /\ IdOf(Stored[i]).s /= ""
        /\ \A i, j \in 1..Len(Stored) : i /= j => IdOf(Stored[i]) /= IdOf(Stored[j])

\* C1 amended: every Record that ingestion persisted carries as `id` the
\* non-empty string uuid4 returned for its row, never the cell of the CSV's
\* own `id` column; two Records differ in `id` whenever uuid4 returned
\* different values for them.
C1_GeneratedIds ==
    written =>
        /\ blob.exists /\ Loads(blob.body).ok
        /\ Len(Stored) = Len(uuids)
        /\ \A k \in 1..Len(Stored) : IdOf(Stored[k]) = Str(uuids[k]) /\ uuids[k] /= ""
        /\ \A i, j \in 1..Len(Stored) : uuids[i] /= uuids[j] => IdOf(Stored[i]) /= IdOf(Stored[j])

\* A CSV whose own `id` column is empty and duplicated, ingested with two
\* different uuids, and a failed invocation after the successful one.
C1_Witness ==
    /\ written
    /\ remote.lines = <<HeaderIdRow, <<"">>, <<"">> >>
    /\ uuids = <<"u1", "u2">>
    /\ iresult.kind = "raised"

\* A document with a header line whose other lines all have as many cells
\* as the header.
ValidCsv(lines) ==
    /\ Len(lines) >= 1
    /\ lines[1] /= <<>>
    /\ \A k \in 2..Len(lines) : Len(lines[k]) = Len(lines[1])

DistinctNames(header) ==
    \A i, j \in 1..Len(header) : i /= j => header[i] /= header[j]

\* data has one object per data line, in order, the k-th mapping every
\* header name but `id` to the k-th line's cell of that column, and no key
\* besides the header names and `id`.
MapsRows(lines, data) ==
    /\ Len(data) = Len(lines) - 1
    /\ \A k \in 1..Len(data) :
          /\ \A j \in 1..Len(lines[1]) :
                lines[1][j] /= "id" => DictGet(data[k], Str(lines[1][j])) = Str(lines[k + 1][j])
          /\ \A m \in 1..Len(data[k]) :
                \/ data[k][m].key = Str("id")
                \/ \E j \in 1..Len(lines[1]) : data[k][m].key = Str(lines[1][j])

\* What a successful ingestion of a valid document leaves and returns.
IngestedAsRows ==
    /\ blob.exists /\ Loads(blob.body).ok
    /\ MapsRows(remote.lines, Stored)
    /\ (Len(remote.lines) = 1 => blob.body = <<P("["), P("]")>>)
    /\ (iresult.kind = "returned" =>
            /\ iresult.statusCode = 200
            /\ iresult.body = <<S("CSV successfully processed and stored as JSON in S3")>>)

C3_ReturnsThatRecord ==
    [][LET read == Loads(qbody)
           id   == ItemId(event')
       IN  (QueryResponds /\ read.ok /\ Truthy(id)) =>
             \A k \in 1..Len(read.val) :
                IdOf(read.val[k]) = id =>
                    /\ qresult'.kind = "returned"
                    /\ qresult'.statusCode = 200
                    /\ qresult'.contentType = "application/json"
                    /\ qresult'.body = DumpsDict(read.val[k])]_vars

\* C3 amended: such a query returns 200, Content-Type application/json and
\* the JSON encoding of the first Record in order whose `id` equals the
\* parameter, token for token as the blob holds it; that Record is r
\* unless an earlier Record has the same `id`.
C3_ReturnsFirstMatch ==
    [][LET read == Loads(qbody)
           id   == ItemId(event')
       IN  (QueryResponds /\ read.ok /\ Truthy(id)) =>
             \A k \in 1..Len(read.val) :
                (/\ IdOf(read.val[k]) = id
                 /\ \A j \in 1..(k - 1) : IdOf(read.val[j]) /= id) =>
                    /\ qresult'.kind = "returned"
                    /\ qresult'.statusCode = 200
                    /\ qresult'.contentType = "application/json"
                    /\ qresult'.body = DumpsDict(read.val[k])
                    /\ \E o \in 1..Len(qbody) :
                          SubSeq(qbody, o, o + Len(qresult'.body) - 1) = qresult'.body]_vars

\* A query by the id of the second of two Records has returned that Record.
C3_Witness ==
    /\ written
    /\ remote.lines = <<HeaderIdRow, <<"b", "b">>, <<"id", "a">> >>
    /\ uuids = <<"u2", "u1">>
    /\ qpc = "idle"
    /\ ItemId(event) = Str("u1")
    /\ qresult.kind = "returned"
    /\ qresult.body = DumpsDict(Stored[2])
    /\ Stored[1] /= Stored[2]

\* C4: on a non-empty Record Set a query whose `id` is absent, empty or the
\* id of no Record returns statusCode 200 and the JSON encoding of a member
\* of the Record Set it read; it never raises.
C4_FallbackReturnsMember ==
    [][LET read == Loads(qbody)
           id   == ItemId(event')
       IN  (/\ QueryResponds
            /\ read.ok
            /\ read.val /= <<>>
            /\ \/ ~Truthy(id)
               \/ \A k \in 1..Len(read.val) : IdOf(read.val[k]) /= id) =>
                /\ qresult'.kind = "returned"
                /\ qresult'.statusCode = 200
                /\ \E k \in 1..Len(read.val) : qresult'.body = DumpsDict(read.val[k])]_vars

\* A query for an id that no stored Record has has returned a Record.
C4_Witness ==
    /\ written
    /\ Len(uuids) = 2
    /\ qpc = "idle"
    /\ ItemId(event) = Str("u0")
    /\ qresult.kind = "returned"
    /\ qresult.statusCode = 200

\* C5: when the Record Set read is the empty array every query, whatever
\* its `id`, ends in an error and returns no response.
C5_EmptySetRaises ==
    [][LET read == Loads(qbody)
       IN  (QueryResponds /\ read.ok /\ read.val = <<>>) =>
                qresult'.kind = "raised" /\ qresult'.body = <<>>]_vars

\* A query with an id against the array a header-only CSV left has failed.
C5_Witness ==
    /\ written
    /\ remote.lines = <<HeaderIdRow>>
    /\ blob.body = <<P("["), P("]")>>
    /\ qpc = "idle"
    /\ ItemId(event) = Str("u1")
    /\ qresult = Raised("IndexError")

\* C6: a step in which an ingestion invocation ends in failure leaves the
\* blob exactly as it was and yields no response.
C6_FailureWritesNothing ==
    [][iresult'.kind = "raised" => (blob' = blob /\ iresult'.statusCode /= 200 /\ iresult'.body = <<>>)]_vars

\* The write failed while the key held an earlier Record Set.
C6_Witness ==
    /\ iresult = Raised("ClientError")
    /\ ~written
    /\ blob = [exists |-> TRUE, body |-> Dumps(PriorData)]

\* The ids of a Record Set.
Ids(data) == {IdOf(data[k]) : k \in 1..Len(data)}

Records(data) == {data[k] : k \in 1..Len(data)}

\* C7 as stated: after a successful ingestion no Record and no `id` of the
\* content stored before it is in the persisted Record Set.
C7_NothingSurvives ==
    [][(IngestReturns /\ blob.exists /\ Loads(blob.body).ok) =>
            /\ Ids(Loads(blob'.body).val) \cap Ids(Loads(blob.body).val) = {}
            /\ Records(Loads(blob'.body).val) \cap Records(Loads(blob.body).val) = {}]_vars

\* C7 amended: once an ingestion has succeeded the blob is exactly the JSON
\* array of the Records built from the CSV that the last successful
\* invocation fetched, with the ids generated in it, whatever the key held
\* before and whatever failed since.
C7_BlobIsLastOutput ==
    written =>
        /\ blob.exists
        /\ Loads(blob.body).ok
        /\ Len(Stored) = Cardinality({k \in 2..Len(remote.lines) : remote.lines[k] /= <<>>})
        /\ blob.body = Dumps([k \in 1..Len(uuids) |->
                                DictSet(DictReader(remote.lines)[k], Str("id"), Str(uuids[k]))])

\* Two Records stored, then a failed invocation.
C7_Witness ==
    /\ written
    /\ iresult = Raised("RequestException")
    /\ Len(Stored) = 2
    /\ uuids = <<"u2", "u2">>

\* C8: every object of a persisted Record Set maps string keys to string
\* values.
C8_StringValues ==
    written =>
        \A k \in 1..Len(Stored) : \A m \in 1..Len(Stored[k]) :
            Stored[k][m].key.k = "str" /\ Stored[k][m].val.k = "str"

\* C9: a query that finds no object at the key, or a body that is no valid
\* JSON, ends in an error without a response; every response the query
\* handler returns has statusCode 200.
C9_MissingOrInvalidRaises ==
    [][/\ (qpc = "idle" /\ ~blob.exists /\ QueryStep) =>
            (qpc' = "idle" /\ qresult'.kind = "raised" /\ qresult'.body = <<>>)
       /\ (QueryResponds /\ ~Loads(qbody).ok) =>
            (qresult'.kind = "raised" /\ qresult'.body = <<>>)
       /\ (qresult'.kind = "returned" => qresult'.statusCode = 200)]_vars

\* A query before any ingestion has succeeded, with no object at the key.
C9_Witness ==
    /\ ~written
    /\ ~blob.exists
    /\ qpc = "idle"
    /\ qresult = Raised("NoSuchKey")

\* The bodies one completed write leaves at the key: what the key held at
\* the start, or the whole output of one ingestion run.
WholeBodies ==
    {b.body : b \in {x \in InitBlobs : x.exists}}
    \cup (IF remote.decodable
          THEN {Dumps([k \in 1..Len(ids) |->
                        DictSet(DictReader(remote.lines)[k], Str("id"), Str(ids[k]))]) :
                    ids \in [1..Len(DictReader(remote.lines)) -> UUIDs]}
          ELSE {})

\* C10: under every interleaving the body a query holds is in its entirety
\* one that a single completed write left, and the Record it returns is a
\* Record of that body.
C10_ReadsOneWholeSet ==
    /\ [](qpc = "read" => qbody \in WholeBodies)
    /\ [][LET read == Loads(qbody)
           IN  (QueryResponds /\ qresult'.kind = "returned") =>
                 /\ read.ok
                 /\ \E k \in 1..Len(read.val) : qresult'.body = DumpsDict(read.val[k])]_vars

\* A query holds the old Record Set while the key already holds a new one.
C10_Witness ==
    /\ qpc = "read"
    /\ written
    /\ qbody /= blob.body
    /\ Loads(qbody).ok
    /\ Len(Loads(qbody).val) = 2
    /\ Len(Stored) = 2

====
